---- MODULE Spec2Model ----
(***************************************************************************)
(* RefreshTask (src/src/refresh_task.py): the background refresh loop of   *)
(* the display, its condition variable, the manual-update slot and the     *)
(* threads that call start(), stop(), manual_update() and                  *)
(* wait_for_refresh().                                                     *)
(*                                                                         *)
(* The loop thread is modelled statement by statement (loopPc names the    *)
(* statement it is about to execute).  Every collaborator call that may    *)
(* raise has a returning and a raising action.  The condition variable is  *)
(* CPython's threading.Condition: wait() releases the lock, blocks until   *)
(* notified or timed out, and re-acquires the lock before it returns;      *)
(* notify() removes a blocked waiter from the waiters list and is a no-op  *)
(* when no thread is waiting.  The event is CPython's threading.Event:     *)
(* wait() returns at once when the flag is set and blocks otherwise, and   *)
(* set() releases every blocked thread.  The names Event, Condition and    *)
(* Thread of the source are taken to be those of the threading module it   *)
(* imports.                                                                *)
(***************************************************************************)
EXTENDS Integers, Sequences, FiniteSets, TLC

\* ------------------------------------------------------------ bounds ----
\* Number of manual_update() calls the external callers makes.
MaxManual == 2
\* The clock (datetime.now()) saturates at this value.
MaxTime == 2

\* ----------------------------------------------------------- domains ----
Plugins == {"p1"}
Playlists == {"A"}
Images == {"X", "Y"}

\* compute_image_hash: the fingerprint of an image.
compute_image_hash(image) ==
    CASE image = "X" -> "h0"
      [] image = "Y" -> "h1"
      [] OTHER -> "none"

\* The empty tuple () of manual_update_request, and None of refresh_action.
NoAction == [id |-> 0, playlist |-> "none", plugin |-> "none", during |-> "none"]

\* PlaylistRefresh(playlist, plugin_instance); id is the object's identity
\* for the objects manual_update creates, 0 for those the loop creates.
\* during is history: the loop's phase when manual_update was called.
PlaylistRefresh(id, playlist, plugin_instance, during) ==
    [id |-> id, playlist |-> playlist, plugin |-> plugin_instance,
     during |-> during]

\* refresh_action.get_refresh_info(): the identifying fields of the action.
get_refresh_info(action) ==
    [playlist_id |-> action.playlist, plugin_id |-> action.plugin]

\* refresh_info.update({...}) followed by RefreshInfo(**refresh_info).
RefreshInfo(fields, current_dt, image_hash) ==
    [playlist_id |-> fields.playlist_id, plugin_id |-> fields.plugin_id,
     refresh_time |-> current_dt, image_hash |-> image_hash]

NoInfo == [playlist_id |-> "none", plugin_id |-> "none",
           refresh_time |-> 0, image_hash |-> "none"]

\* Python truthiness of `if self.manual_update_request:` / `if refresh_action:`
Truthy(action) == action # NoAction

VARIABLES
    running,                \* self.running
    loopPc,                 \* the loop thread: the statement it is at
    lockOwner,              \* owner of self.condition's lock
    inWait,                 \* the loop is in self.condition's waiters list
    refresh_event,          \* self.refresh_event is set
    refresh_result,         \* self.refresh_result: "empty" or "exception"
    manual_update_request,  \* self.manual_update_request
    refresh_info,           \* device_config.refresh_info (in memory)
    persisted,              \* refresh_info as last written by write_config
    displayed,              \* the image on the display
    now,                    \* the clock
    latest_refresh,         \* _run local
    current_dt,             \* _run local
    refresh_action,         \* _run local
    image,                  \* _run local
    candidate,              \* _run local refresh_info (lines 97-101)
    muPc, muReq,            \* the thread calling manual_update
    nCalls,                 \* manual_update calls made so far
    stopPc,                 \* the thread calling stop()
    wfPc, wfResult,         \* the thread calling wait_for_refresh()
    \* ---- history variables (not program state) ----
    log,                    \* collaborator calls of the current iteration
    preInfo,                \* refresh_info when the iteration took the lock
    wokenBy,                \* how the last wait() ended
    starved,                \* a wait() timed out while the manual_update
                            \* call in progress was waiting for the lock
    consumed,               \* how many cycles used each manual request
    wfDue,                  \* refresh_result at the completion signal that
                            \* released the blocked wait_for_refresh call
    everFailed              \* some earlier iteration aborted at a step

vars == <<running, loopPc, lockOwner, inWait, refresh_event, refresh_result,
          manual_update_request, refresh_info, persisted, displayed, now,
          latest_refresh, current_dt, refresh_action, image, candidate,
          muPc, muReq, nCalls, stopPc, wfPc, wfResult,
          log, preInfo, wokenBy, starved, consumed, wfDue, everFailed>>

locals == <<latest_refresh, current_dt, refresh_action, image, candidate>>
callers == <<muPc, muReq, nCalls, stopPc, starved>>
device == <<refresh_info, persisted, displayed>>
waiter == <<wfPc, wfResult, wfDue>>

InitInfo == [playlist_id |-> "A", plugin_id |-> "p0",
             refresh_time |-> 0, image_hash |-> "h0"]

\* RefreshTask.__init__, with a DeviceConfig whose stored RefreshInfo
\* describes the image on the display.
Init ==
    /\ running = FALSE
    /\ loopPc = "unstarted"
    /\ lockOwner = "none"
    /\ inWait = FALSE
    /\ refresh_event = FALSE
    /\ refresh_result = "empty"
    /\ manual_update_request = NoAction
    /\ refresh_info = InitInfo
    /\ persisted = InitInfo
    /\ displayed = "X"
    /\ now = 1
    /\ latest_refresh = NoInfo
    /\ current_dt = 0
    /\ refresh_action = NoAction
    /\ image = "none"
    /\ candidate = NoInfo
    /\ muPc = "idle"
    /\ muReq = NoAction
    /\ nCalls = 0
    /\ stopPc = "idle"
    /\ wfPc = "idle"
    /\ wfResult = "none"
    /\ wfDue = "none"
    /\ log = <<>>
    /\ preInfo = InitInfo
    /\ wokenBy = "none"
    /\ starved = FALSE
    /\ consumed = [i \in 1..MaxManual |-> 0]
    /\ everFailed = FALSE

\* The loop's phase, as the specification names it.
Executing ==
    loopPc \in {"get_playlist_manager", "get_refresh_info", "determine",
                "resolve", "execute", "hash", "display", "commit",
                "write_config"}
Waiting == loopPc = "waiting" /\ inWait
Phase == IF Executing THEN "Executing" ELSE IF Waiting THEN "Waiting" ELSE "Other"

\* ------------------------------------------------------------ start() ---
Start ==
    /\ loopPc = "unstarted"
    /\ running' = TRUE
    /\ loopPc' = "top"
    /\ UNCHANGED <<lockOwner, inWait, refresh_event, refresh_result,
                   manual_update_request, device, now, locals, callers,
                   log, preInfo, wokenBy, consumed, everFailed, waiter>>


\* ------------------------------------------------------ _run: the wait --
flags == <<running, refresh_event, refresh_result>>

\* line 51: `with self.condition:` at the top of an iteration
LoopAcquire ==
    /\ loopPc = "top"
    /\ lockOwner = "none"
    /\ lockOwner' = "loop"
    /\ loopPc' = "get_config"
    /\ log' = <<>>
    /\ preInfo' = refresh_info
    /\ UNCHANGED <<flags, inWait, manual_update_request, device, now, locals,
                   callers,
                   wokenBy, consumed, everFailed, waiter>>

\* The locals of _run are dead once the `with` block is left.
ResetLocals ==
    /\ latest_refresh' = NoInfo
    /\ current_dt' = 0
    /\ refresh_action' = NoAction
    /\ image' = "none"
    /\ candidate' = NoInfo

\* A call raises an exception that leaves the `with` block and reaches
\* line 127: the context manager releases the lock before the handler runs.
RaiseUnhandled(call) ==
    /\ lockOwner' = "none"
    /\ loopPc' = "except"
    /\ log' = log \o <<call, "unhandled">>
    /\ ResetLocals

\* `continue` inside the `with` block (lines 83, 89, 95, 112, 120) after a
\* call failed: the context manager releases the lock and control goes to
\* `finally`.
Continue(call, why) ==
    /\ lockOwner' = "none"
    /\ loopPc' = "finally"
    /\ log' = log \o <<call, why>>
    /\ everFailed' = TRUE
    /\ ResetLocals

\* line 52: get_config("scheduler_sleep_time") returns
GetConfigOk ==
    /\ loopPc = "get_config"
    /\ loopPc' = "wait"
    /\ UNCHANGED <<flags, lockOwner, inWait, manual_update_request, device, now,
                   locals, callers, log, preInfo, wokenBy, consumed,
                   everFailed, waiter>>

\* line 52: get_config raises
GetConfigRaise ==
    /\ loopPc = "get_config"
    /\ RaiseUnhandled("get_config")
    /\ UNCHANGED <<flags, inWait, manual_update_request, device, now,
                   callers, preInfo, wokenBy, consumed, everFailed, waiter>>

\* line 54: condition.wait(timeout) releases the lock and blocks
WaitEnter ==
    /\ loopPc = "wait"
    /\ lockOwner' = "none"
    /\ inWait' = TRUE
    /\ wokenBy' = "none"
    /\ loopPc' = "waiting"
    /\ UNCHANGED <<flags, manual_update_request, device, now, locals, callers,
                   log, preInfo, consumed, everFailed, waiter>>

\* line 54: wait() returns after a notify, once the lock is free again
WaitNotified ==
    /\ loopPc = "waiting"
    /\ ~inWait
    /\ lockOwner = "none"
    /\ lockOwner' = "loop"
    /\ loopPc' = "clear_result"
    /\ UNCHANGED <<flags, inWait, manual_update_request, device, now, locals,
                   callers, log, preInfo, wokenBy, consumed, everFailed, waiter>>

\* line 54: the timeout elapses; wait() re-acquires the lock and removes the
\* waiter from the waiters list
WaitTimeout ==
    /\ loopPc = "waiting"
    /\ inWait
    /\ lockOwner = "none"
    /\ lockOwner' = "loop"
    /\ inWait' = FALSE
    /\ wokenBy' = "timeout"
    /\ starved' = (starved \/ muPc = "acquire")
    /\ loopPc' = "clear_result"
    /\ UNCHANGED <<flags, manual_update_request, device, now, locals, muPc,
                   muReq, nCalls, stopPc, log, preInfo, consumed, everFailed, waiter>>

\* line 55, mutated: the wake-up reset also empties the manual slot
ClearResultAndRequest ==
    /\ loopPc = "clear_result"
    /\ refresh_result' = "empty"
    /\ manual_update_request' = NoAction
    /\ loopPc' = "clear_event"
    /\ UNCHANGED <<running, refresh_event, lockOwner, inWait, device, now,
                   locals, callers, log, preInfo, wokenBy, consumed,
                   everFailed, waiter>>

\* line 55
ClearResult ==
    /\ loopPc = "clear_result"
    /\ refresh_result' = "empty"
    /\ loopPc' = "clear_event"
    /\ UNCHANGED <<running, refresh_event, lockOwner, inWait,
                   manual_update_request, device, now, locals, callers, log,
                   preInfo, wokenBy, consumed, everFailed, waiter>>

\* line 56
ClearEvent ==
    /\ loopPc = "clear_event"
    /\ refresh_event' = FALSE
    /\ loopPc' = "check_running"
    /\ UNCHANGED <<running, refresh_result, lockOwner, inWait,
                   manual_update_request, device, now, locals, callers, log,
                   preInfo, wokenBy, consumed, everFailed, waiter>>

\* lines 58-59, mutated: the flag is not looked at
CheckRunningIgnored ==
    /\ loopPc = "check_running"
    /\ loopPc' = "get_playlist_manager"
    /\ UNCHANGED <<flags, lockOwner, inWait, manual_update_request, device, now,
                   locals, callers, log, preInfo, wokenBy, consumed,
                   everFailed, waiter>>

\* lines 58-59: `if not self.running: break` (the break leaves the `with`
\* block, which releases the lock, and runs `finally`)
CheckRunning ==
    /\ loopPc = "check_running"
    /\ IF running
       THEN /\ loopPc' = "get_playlist_manager"
            /\ UNCHANGED lockOwner
       ELSE /\ loopPc' = "finally_break"
            /\ lockOwner' = "none"
    /\ UNCHANGED <<flags, inWait, manual_update_request, device, now,
                   locals, callers, log, preInfo, wokenBy, consumed,
                   everFailed, waiter>>

\* ------------------------------------------- _run: action determination --
\* line 61: get_playlist_manager() returns
GetPlaylistManagerOk ==
    /\ loopPc = "get_playlist_manager"
    /\ loopPc' = "get_refresh_info"
    /\ log' = Append(log, "get_playlist_manager")
    /\ UNCHANGED <<flags, lockOwner, inWait, manual_update_request, device, now,
                   locals, callers, preInfo, wokenBy, consumed,
                   everFailed, waiter>>

\* line 61: get_playlist_manager() raises
GetPlaylistManagerRaise ==
    /\ loopPc = "get_playlist_manager"
    /\ RaiseUnhandled("get_playlist_manager")
    /\ UNCHANGED <<flags, inWait, manual_update_request, device, now,
                   callers, preInfo, wokenBy, consumed, everFailed, waiter>>

\* The clock after a reading of it.
Tick(t) == IF t < MaxTime THEN t + 1 ELSE t

\* lines 62-63: get_refresh_info() returns, then _get_current_datetime()
GetRefreshInfoOk ==
    /\ loopPc = "get_refresh_info"
    /\ latest_refresh' = refresh_info
    /\ current_dt' = now
    /\ now' = Tick(now)
    /\ loopPc' = "determine"
    /\ log' = Append(log, "get_refresh_info")
    /\ UNCHANGED <<flags, lockOwner, inWait, manual_update_request, device,
                   refresh_action, image, candidate, callers, preInfo, wokenBy, consumed, everFailed, waiter>>

\* line 62: get_refresh_info() raises
GetRefreshInfoRaise ==
    /\ loopPc = "get_refresh_info"
    /\ RaiseUnhandled("get_refresh_info")
    /\ UNCHANGED <<flags, inWait, manual_update_request, device, now,
                   callers, preInfo, wokenBy, consumed, everFailed, waiter>>

\* line 69, mutated: the slot keeps the request that was read
KeptRequest == manual_update_request

\* line 69: self.manual_update_request = ()
ClearedRequest == NoAction

\* line 66, mutated: the manual slot is not looked at
NeverPending == FALSE

\* line 66: `if self.manual_update_request:`
ManualPending == Truthy(manual_update_request)

\* lines 66-69, mutated: the `with` block ends after the slot is read, so
\* the pipeline runs without the lock
ConsumeManualReleases ==
    /\ loopPc = "determine"
    /\ ManualPending
    /\ refresh_action' = manual_update_request
    /\ manual_update_request' = ClearedRequest
    /\ consumed' = [consumed EXCEPT ![manual_update_request.id] = @ + 1]
    /\ log' = Append(log, "manual")
    /\ lockOwner' = "none"
    /\ loopPc' = "resolve"
    /\ UNCHANGED <<flags, inWait, device, now, latest_refresh,
                   current_dt, image, candidate, callers, preInfo, wokenBy,
                   everFailed, waiter>>

\* lines 66-69 and 76: the pending manual request becomes the refresh action
ConsumeManual ==
    /\ loopPc = "determine"
    /\ ManualPending
    /\ refresh_action' = manual_update_request
    /\ manual_update_request' = ClearedRequest
    /\ consumed' = [consumed EXCEPT ![manual_update_request.id] = @ + 1]
    /\ log' = Append(log, "manual")
    /\ loopPc' = "resolve"
    /\ UNCHANGED <<flags, lockOwner, inWait, device, now, latest_refresh,
                   current_dt, image, candidate, callers, preInfo, wokenBy, everFailed, waiter>>

\* lines 73-74, mutated: the action is built without looking at the plugin
DetermineWithoutCheck(found, next) ==
    PlaylistRefresh(0, latest_refresh.playlist_id, next, "none")

\* lines 142-148: _determine_next_plugin; found is whether get_playlist
\* returned a playlist, next what get_next_plugin returned ("none": None)
DetermineNextPlugin(found, next) ==
    IF found /\ next # "none"
    THEN PlaylistRefresh(0, latest_refresh.playlist_id, next, "none")
    ELSE NoAction

\* The calls _determine_next_plugin makes (line 146, then line 147 if a
\* playlist was found), with a marker when the playlist is absent or
\* reports no next plugin
PlaylistCalls(found, next) ==
    IF found
    THEN <<"get_playlist", "get_next_plugin">>
            \o (IF next = "none" THEN <<"no_next_plugin">> ELSE <<>>)
    ELSE <<"get_playlist", "no_playlist">>

\* lines 70-76: no manual request is pending: interval-driven selection
IntervalSelect ==
    /\ loopPc = "determine"
    /\ ~ManualPending
    /\ \E found \in BOOLEAN, next \in Plugins \cup {"none"} :
         /\ refresh_action' = DetermineNextPlugin(found, next)
         /\ log' = log \o PlaylistCalls(found, next)
    /\ loopPc' = IF Truthy(refresh_action') THEN "resolve" ELSE "write_config"
    /\ UNCHANGED <<flags, lockOwner, inWait, manual_update_request, device, now,
                   latest_refresh, current_dt, image, candidate, callers,
                   preInfo, wokenBy, consumed, everFailed, waiter>>

\* line 72: get_playlist or get_next_plugin raises
IntervalSelectRaise ==
    /\ loopPc = "determine"
    /\ ~ManualPending
    /\ RaiseUnhandled("get_playlist")
    /\ UNCHANGED <<flags, inWait, manual_update_request, device, now,
                   callers, preInfo, wokenBy, consumed, everFailed, waiter>>

\* ------------------------------------------------- _run: the pipeline ---
\* lines 78-81: get_plugin and get_plugin_instance return a plugin
ResolveOk ==
    /\ loopPc = "resolve"
    /\ loopPc' = "execute"
    /\ log' = Append(log, "resolve")
    /\ UNCHANGED <<flags, lockOwner, inWait, manual_update_request, device, now,
                   locals, callers, preInfo, wokenBy, consumed,
                   everFailed, waiter>>

\* lines 81-83: get_plugin_instance returns None: `continue`
ResolveNull ==
    /\ loopPc = "resolve"
    /\ Continue("resolve", "abort_resolve_null")
    /\ UNCHANGED <<flags, inWait, manual_update_request, device, now, callers, preInfo, wokenBy, consumed, waiter>>

\* lines 78-79, 118-120: get_plugin or get_plugin_instance raises
ResolveRaise ==
    /\ loopPc = "resolve"
    /\ Continue("resolve", "abort_resolve_raise")
    /\ UNCHANGED <<flags, inWait, manual_update_request, device, now, callers, preInfo, wokenBy, consumed, waiter>>

\* line 86: refresh_action.execute returns an image
ExecuteOk ==
    /\ loopPc = "execute"
    /\ \E img \in Images : image' = img
    /\ loopPc' = "hash"
    /\ log' = Append(log, "execute")
    /\ UNCHANGED <<flags, lockOwner, inWait, manual_update_request, device, now,
                   latest_refresh, current_dt, refresh_action, candidate,
                   callers, preInfo, wokenBy, consumed, everFailed, waiter>>

\* lines 87-89: refresh_action.execute raises: `continue`
ExecuteRaise ==
    /\ loopPc = "execute"
    /\ Continue("execute", "abort_execute")
    /\ UNCHANGED <<flags, inWait, manual_update_request, device, now, callers, preInfo, wokenBy, consumed, waiter>>

\* line 103, mutated: the comparison is inverted
ShouldDisplayInverted(image_hash, latest_hash) == image_hash = latest_hash

\* line 103, mutated: the display is always written
AlwaysDisplay(image_hash, latest_hash) == TRUE

\* line 103: `if image_hash != latest_refresh.image_hash:`
ShouldDisplay(image_hash, latest_hash) == image_hash # latest_hash

\* lines 92-103: compute_image_hash returns; the candidate RefreshInfo is
\* built from the action's fields, the cycle's timestamp and the hash
HashOk ==
    /\ loopPc = "hash"
    /\ candidate' = RefreshInfo(get_refresh_info(refresh_action), current_dt,
                                compute_image_hash(image))
    /\ loopPc' = IF ShouldDisplay(compute_image_hash(image),
                                  latest_refresh.image_hash)
                 THEN "display" ELSE "commit"
    /\ log' = Append(log, "hash")
    /\ UNCHANGED <<flags, lockOwner, inWait, manual_update_request, device, now,
                   latest_refresh, current_dt, refresh_action, image,
                   callers, preInfo, wokenBy, consumed, everFailed, waiter>>

\* lines 93-95: compute_image_hash raises: `continue`
HashRaise ==
    /\ loopPc = "hash"
    /\ Continue("hash", "abort_hash")
    /\ UNCHANGED <<flags, inWait, manual_update_request, device, now, callers, preInfo, wokenBy, consumed, waiter>>

\* lines 106-116, mutated: the commit is in the `else` branch of line 113,
\* so a cycle that wrote the display does not commit
DisplayOkSkipsCommit ==
    /\ loopPc = "display"
    /\ displayed' = image
    /\ loopPc' = "write_config"
    /\ log' = Append(log, "display")
    /\ UNCHANGED <<flags, lockOwner, inWait, manual_update_request,
                   refresh_info, persisted, now, locals, callers, preInfo,
                   wokenBy, consumed, everFailed, waiter>>

\* lines 106-109: display_image returns; the display shows the image
DisplayOk ==
    /\ loopPc = "display"
    /\ displayed' = image
    /\ loopPc' = "commit"
    /\ log' = Append(log, "display")
    /\ UNCHANGED <<flags, lockOwner, inWait, manual_update_request,
                   refresh_info, persisted, now, locals, callers, preInfo,
                   wokenBy, consumed, everFailed, waiter>>

\* lines 110-112, mutated: the `continue` is missing
DisplayRaiseNoContinue ==
    /\ loopPc = "display"
    /\ loopPc' = "commit"
    /\ everFailed' = TRUE
    /\ log' = log \o <<"display", "abort_display">>
    /\ UNCHANGED <<flags, lockOwner, inWait, manual_update_request, device, now,
                   locals, callers, preInfo, wokenBy, consumed, waiter>>

\* lines 110-112: display_image raises: `continue`
DisplayRaise ==
    /\ loopPc = "display"
    /\ Continue("display", "abort_display")
    /\ UNCHANGED <<flags, inWait, manual_update_request, device, now, callers, preInfo, wokenBy, consumed, waiter>>

\* line 116: self.device_config.refresh_info = RefreshInfo(**refresh_info)
Commit ==
    /\ loopPc = "commit"
    /\ refresh_info' = candidate
    /\ loopPc' = "write_config"
    /\ log' = Append(log, "commit")
    /\ UNCHANGED <<flags, lockOwner, inWait, manual_update_request, persisted,
                   displayed, now, locals, callers, preInfo, wokenBy,
                   consumed, everFailed, waiter>>

\* lines 122-123: write_config() returns; the `with` block ends
WriteConfigOk ==
    /\ loopPc = "write_config"
    /\ persisted' = refresh_info
    /\ lockOwner' = "none"
    /\ loopPc' = "finally"
    /\ ResetLocals
    /\ log' = Append(log, "write_config")
    /\ UNCHANGED <<flags, inWait, manual_update_request, refresh_info,
                   displayed, now, callers, preInfo, wokenBy,
                   consumed, everFailed, waiter>>

\* lines 124-125, mutated: the handler rolls the in-memory commit back
WriteConfigRaiseReverts ==
    /\ loopPc = "write_config"
    /\ refresh_info' = latest_refresh
    /\ lockOwner' = "none"
    /\ loopPc' = "finally"
    /\ ResetLocals
    /\ log' = Append(log, "write_config")
    /\ UNCHANGED <<flags, inWait, manual_update_request, persisted, displayed,
                   now, callers, preInfo, wokenBy, consumed, everFailed,
                   waiter>>

\* lines 124-125: write_config() raises; logged, the `with` block ends
WriteConfigRaise ==
    /\ loopPc = "write_config"
    /\ lockOwner' = "none"
    /\ loopPc' = "finally"
    /\ ResetLocals
    /\ log' = Append(log, "write_config")
    /\ UNCHANGED <<flags, inWait, manual_update_request, device, now, callers, preInfo, wokenBy, consumed, everFailed, waiter>>

\* lines 127-129: the outermost handler records the exception
Except ==
    /\ loopPc = "except"
    /\ refresh_result' = "exception"
    /\ loopPc' = "finally"
    /\ UNCHANGED <<running, refresh_event, lockOwner, inWait,
                   manual_update_request, device, now, locals, callers, log,
                   preInfo, wokenBy, consumed, everFailed, waiter>>

\* line 131, mutated: the flag is set but no blocked thread is released
ReleaseNobody(pc) == pc

\* line 131: refresh_event.set() releases the thread blocked in
\* refresh_event.wait(); it returns from wait() whatever happens to the flag
\* afterwards
Release(pc) == IF pc = "blocked" THEN "read" ELSE pc

\* lines 130-131: finally: refresh_event.set(); the next iteration follows
Finally ==
    /\ loopPc = "finally"
    /\ refresh_event' = TRUE
    /\ wfPc' = Release(wfPc)
    /\ wfDue' = IF wfPc = "blocked" THEN refresh_result ELSE wfDue
    /\ loopPc' = "top"
    /\ log' = Append(log, "set_event")
    /\ UNCHANGED <<running, refresh_result, lockOwner, inWait,
                   manual_update_request, device, now, locals, callers,
                   preInfo, wokenBy, consumed, everFailed, wfResult>>

\* lines 59, 130-131: finally after `break`: the thread ends
FinallyBreak ==
    /\ loopPc = "finally_break"
    /\ refresh_event' = TRUE
    /\ wfPc' = Release(wfPc)
    /\ wfDue' = IF wfPc = "blocked" THEN "stopped" ELSE wfDue
    /\ loopPc' = "exited"
    /\ log' = Append(log, "set_event")
    /\ UNCHANGED <<running, refresh_result, lockOwner, inWait,
                   manual_update_request, device, now, locals, callers,
                   preInfo, wokenBy, consumed, everFailed, wfResult>>

\* --------------------------------------------------- manual_update() ----
\* line 37 / 136, mutated: the notify reaches nobody
NotifyLost(waiting) == waiting

\* lines 37, 136: condition.notify(): the waiter, if there is one, leaves
\* the waiters list and will return from wait()
Notify(waiting) == FALSE

\* line 133: a thread calls manual_update(playlist, plugin_instance)
ManualCall ==
    /\ muPc = "idle"
    /\ nCalls < MaxManual
    /\ \E pl \in Playlists, p \in Plugins :
         muReq' = PlaylistRefresh(nCalls + 1, pl, p, Phase)
    /\ nCalls' = nCalls + 1
    /\ muPc' = "acquire"
    /\ starved' = FALSE
    /\ UNCHANGED <<flags, loopPc, lockOwner, inWait, manual_update_request,
                   device, now, locals, stopPc, log, preInfo,
                   wokenBy, consumed, everFailed, waiter>>

\* line 134: `with self.condition:`
ManualAcquire ==
    /\ muPc = "acquire"
    /\ lockOwner = "none"
    /\ lockOwner' = "mu"
    /\ muPc' = "store"
    /\ UNCHANGED <<flags, loopPc, inWait, manual_update_request, device, now,
                   locals, muReq, nCalls, starved, stopPc, log,
                   preInfo, wokenBy, consumed, everFailed, waiter>>

\* lines 135-136: store the request, notify, leave the `with` block
ManualStore ==
    /\ muPc = "store"
    /\ manual_update_request' = muReq
    /\ inWait' = Notify(inWait)
    /\ wokenBy' = IF inWait /\ ~inWait' THEN "manual" ELSE wokenBy
    /\ lockOwner' = "none"
    /\ muPc' = "idle"
    /\ muReq' = NoAction
    /\ starved' = FALSE
    /\ UNCHANGED <<flags, loopPc, device, now, locals, nCalls, stopPc,
                   log, preInfo, consumed,
                   everFailed, waiter>>

\* ------------------------------------------------------------ stop() ----
\* line 35: self.running = False (stop() is called after start())
StopFlag ==
    /\ stopPc = "idle"
    /\ loopPc # "unstarted"
    /\ running' = FALSE
    /\ stopPc' = "acquire"
    /\ UNCHANGED <<refresh_event, refresh_result, loopPc, lockOwner, inWait,
                   manual_update_request, device, now, locals, muPc, muReq,
                   nCalls, starved, log, preInfo, wokenBy, consumed,
                   everFailed, waiter>>

\* line 36: `with self.condition:`
StopAcquire ==
    /\ stopPc = "acquire"
    /\ lockOwner = "none"
    /\ lockOwner' = "stop"
    /\ stopPc' = "notify"
    /\ UNCHANGED <<flags, loopPc, inWait, manual_update_request, device, now,
                   locals, muPc, muReq, nCalls, starved, log,
                   preInfo, wokenBy, consumed, everFailed, waiter>>

\* line 37: notify, leave the `with` block
StopNotify ==
    /\ stopPc = "notify"
    /\ inWait' = Notify(inWait)
    /\ wokenBy' = IF inWait /\ ~inWait' THEN "stop" ELSE wokenBy
    /\ lockOwner' = "none"
    /\ stopPc' = "join"
    /\ UNCHANGED <<flags, loopPc, manual_update_request, device, now, locals,
                   muPc, muReq, nCalls, starved, log, preInfo,
                   consumed, everFailed, waiter>>

\* line 38: self.thread.join() returns once the loop thread has ended
StopJoin ==
    /\ stopPc = "join"
    /\ loopPc = "exited"
    /\ stopPc' = "returned"
    /\ UNCHANGED <<flags, loopPc, lockOwner, inWait, manual_update_request,
                   device, now, locals, muPc, muReq, nCalls, starved, log, preInfo, wokenBy, consumed,
                   everFailed, waiter>>

\* -------------------------------------------------- wait_for_refresh() --
\* lines 138-139: a thread calls wait_for_refresh(); refresh_event.wait()
\* returns at once when the flag is set and blocks the thread otherwise
WaitForRefreshCall ==
    /\ wfPc \in {"idle", "returned"}
    /\ wfPc' = IF refresh_event THEN "read" ELSE "blocked"
    /\ wfResult' = "none"
    /\ wfDue' = "none"
    /\ UNCHANGED <<flags, loopPc, lockOwner, inWait, manual_update_request,
                   device, now, locals, callers, log, preInfo, wokenBy,
                   consumed, everFailed>>

\* line 140: `return self.refresh_result`, read without the lock
WaitForRefreshReturn ==
    /\ wfPc = "read"
    /\ wfResult' = refresh_result
    /\ wfPc' = "returned"
    /\ UNCHANGED <<flags, loopPc, lockOwner, inWait, manual_update_request,
                   device, now, locals, callers, log, preInfo, wokenBy,
                   consumed, everFailed, wfDue>>

\* ------------------------------------------------------ specification ---
LoopStep ==
    \/ LoopAcquire \/ GetConfigOk \/ GetConfigRaise
    \/ WaitEnter \/ WaitNotified \/ WaitTimeout
    \/ ClearResult \/ ClearEvent \/ CheckRunning
    \/ GetPlaylistManagerOk \/ GetPlaylistManagerRaise
    \/ GetRefreshInfoOk \/ GetRefreshInfoRaise
    \/ ConsumeManual \/ IntervalSelect \/ IntervalSelectRaise
    \/ ResolveOk \/ ResolveNull \/ ResolveRaise
    \/ ExecuteOk \/ ExecuteRaise
    \/ HashOk \/ HashRaise
    \/ DisplayOk \/ DisplayRaise
    \/ Commit
    \/ WriteConfigOk \/ WriteConfigRaise
    \/ Except \/ Finally \/ FinallyBreak

Next ==
    \/ Start
    \/ LoopStep
    \/ ManualCall \/ ManualAcquire \/ ManualStore
    \/ StopFlag \/ StopAcquire \/ StopNotify \/ StopJoin

Spec == Init /\ [][Next]_vars

\* Fair scheduling of the threads, a finite sleep timeout (WaitTimeout is a
\* step of the loop) and collaborator calls that terminate: the loop thread
\* keeps taking steps, and a caller inside manual_update or stop goes on.
FairSpec ==
    /\ Spec
    /\ WF_vars(LoopStep)
    /\ WF_vars(ManualAcquire) /\ WF_vars(ManualStore)
    /\ WF_vars(StopAcquire) /\ WF_vars(StopNotify) /\ WF_vars(StopJoin)

TypeOK ==
    /\ running \in BOOLEAN
    /\ lockOwner \in {"none", "loop", "mu", "stop"}
    /\ inWait \in BOOLEAN
    /\ refresh_event \in BOOLEAN
    /\ refresh_result \in {"empty", "exception"}
    /\ now \in 1..MaxTime
    /\ nCalls \in 0..MaxManual
    /\ displayed \in Images
    /\ wfPc \in {"idle", "blocked", "read", "returned"}
    /\ wfResult \in {"none", "empty", "exception"}

\* line 54: the timeout elapses before any manual_update call was made
WaitTimeoutBeforeManual ==
    /\ nCalls = 0
    /\ WaitTimeout

\* A variant of the system in which stop() is not called and the sleep
\* timeout is long: it elapses only in the cycles before the first
\* manual_update call, and from then on the loop leaves wait() only when
\* notified.
LoopStepNoTimeout ==
    \/ LoopAcquire \/ GetConfigOk \/ GetConfigRaise
    \/ WaitEnter \/ WaitNotified \/ WaitTimeoutBeforeManual
    \/ ClearResult \/ ClearEvent \/ CheckRunning
    \/ GetPlaylistManagerOk \/ GetPlaylistManagerRaise
    \/ GetRefreshInfoOk \/ GetRefreshInfoRaise
    \/ ConsumeManual \/ IntervalSelect \/ IntervalSelectRaise
    \/ ResolveOk \/ ResolveNull \/ ResolveRaise
    \/ ExecuteOk \/ ExecuteRaise
    \/ HashOk \/ HashRaise
    \/ DisplayOk \/ DisplayRaise
    \/ Commit
    \/ WriteConfigOk \/ WriteConfigRaise
    \/ Except \/ Finally

NextNoTimeout ==
    \/ Start
    \/ LoopStepNoTimeout
    \/ ManualCall \/ ManualAcquire \/ ManualStore

NoTimeoutSpec ==
    /\ Init /\ [][NextNoTimeout]_vars
    /\ WF_vars(LoopStepNoTimeout)
    /\ WF_vars(ManualAcquire) /\ WF_vars(ManualStore)

\* FairSpec with the further assumption that get_config does not raise
\* forever.
FairSpecConfigReturns == FairSpec /\ SF_vars(GetConfigOk)

\* line 133: the only manual_update call of the run
ManualCallOnce ==
    /\ nCalls = 0
    /\ ManualCall

\* The system with a thread that calls wait_for_refresh(), any number of
\* times, and at most one manual_update call.
NextWaiter ==
    \/ Start
    \/ LoopStep
    \/ ManualCallOnce \/ ManualAcquire \/ ManualStore
    \/ StopFlag \/ StopAcquire \/ StopNotify \/ StopJoin
    \/ WaitForRefreshCall \/ WaitForRefreshReturn

WaiterSpec == Init /\ [][NextWaiter]_vars

\* WaiterSpec under fair scheduling with a finite sleep timeout: the loop
\* thread keeps taking steps, and a thread inside manual_update, stop or
\* wait_for_refresh goes on when it can.
FairWaiterSpec ==
    /\ WaiterSpec
    /\ WF_vars(LoopStep)
    /\ WF_vars(ManualAcquire) /\ WF_vars(ManualStore)
    /\ WF_vars(StopAcquire) /\ WF_vars(StopNotify) /\ WF_vars(StopJoin)
    /\ WF_vars(WaitForRefreshReturn)

\* A variant of the system in which manual_update is not called: a thread
\* calls wait_for_refresh(), any number of times, and stop() may be called.
LoopStepNoManual ==
    \/ LoopAcquire \/ GetConfigOk \/ GetConfigRaise
    \/ WaitEnter \/ WaitNotified \/ WaitTimeout
    \/ ClearResult \/ ClearEvent \/ CheckRunning
    \/ GetPlaylistManagerOk \/ GetPlaylistManagerRaise
    \/ GetRefreshInfoOk \/ GetRefreshInfoRaise
    \/ IntervalSelect \/ IntervalSelectRaise
    \/ ResolveOk \/ ResolveNull \/ ResolveRaise
    \/ ExecuteOk \/ ExecuteRaise
    \/ HashOk \/ HashRaise
    \/ DisplayOk \/ DisplayRaise
    \/ Commit
    \/ WriteConfigOk \/ WriteConfigRaise
    \/ Except \/ Finally \/ FinallyBreak

NextStopWaiter ==
    \/ Start
    \/ LoopStepNoManual
    \/ StopFlag \/ StopAcquire \/ StopNotify \/ StopJoin
    \/ WaitForRefreshCall \/ WaitForRefreshReturn

\* Fair scheduling with a finite sleep timeout: the loop thread keeps taking
\* steps (WaitTimeout is one of them), and a thread inside stop or
\* wait_for_refresh goes on when it can.
FairStopWaiterSpec ==
    /\ Init /\ [][NextStopWaiter]_vars
    /\ WF_vars(LoopStepNoManual)
    /\ WF_vars(StopAcquire) /\ WF_vars(StopNotify) /\ WF_vars(StopJoin)
    /\ WF_vars(WaitForRefreshReturn)

\* ------------------------------------------------- reading the history --
InLog(call) == \E i \in 1..Len(log) : log[i] = call

AbortMarkers == {"abort_resolve_null", "abort_resolve_raise", "abort_execute",
                 "abort_hash", "abort_display"}

\* The iteration was aborted by a failing pipeline step.
Aborted == \E m \in AbortMarkers : InLog(m)

\* The iteration is over (its `with` block has been left and its history
\* is complete up to the completion signal).
IterationOver == loopPc \in {"finally", "top"}

\* Interval selection found no playlist, or the playlist had no next plugin.
NoSelection == InLog("no_playlist") \/ InLog("no_next_plugin")

\* The positions of a call in the history of the iteration.
Positions(call) == {i \in 1..Len(log) : log[i] = call}

\* The steps of a cycle that writes the display, from plugin resolution to
\* the completion signal, in the order of lines 78-131.
PipelineSteps == <<"resolve", "execute", "hash", "display", "commit",
                   "write_config", "set_event">>

\* The history of the iteration from its first plugin resolution on.
FromResolve ==
    IF InLog("resolve")
    THEN SubSeq(log, CHOOSE i \in Positions("resolve") :
                        \A j \in Positions("resolve") : i <= j, Len(log))
    ELSE <<>>

\* How many of PipelineSteps are done when the loop is at a statement.
StepsDone ==
    CASE loopPc = "display" -> 3
      [] loopPc = "commit" -> 4
      [] loopPc = "write_config" -> 5
      [] loopPc = "finally" -> 6
      [] loopPc = "top" -> 7
      [] OTHER -> 0

\* The statements of an iteration that the loop runs inside the `with`
\* block (lines 52-125), the wait itself excepted.
InWithBlock ==
    \/ loopPc \in {"get_config", "wait", "clear_result", "clear_event",
                   "check_running"}
    \/ Executing

\* The result record at the completion signal that released the blocked
\* wait_for_refresh call ("none": the call was not blocked, or is still).
DueResult == IF wfDue = "stopped" THEN "empty" ELSE wfDue

\* ------------------------------------------------------------ claims ----

\* C1: in a cycle whose computed fingerprint equals the image_hash read at
\* the top of the cycle, display_image is not invoked, and refresh_info is
\* still replaced by a RefreshInfo with the cycle's timestamp and that hash.
DedupSkipsDisplayButCommits ==
    /\ (loopPc = "commit" /\ candidate.image_hash = latest_refresh.image_hash)
          => ~InLog("display")
    /\ (loopPc = "write_config" /\ InLog("commit"))
          => /\ refresh_info.refresh_time = current_dt
             /\ refresh_info.image_hash = compute_image_hash(image)
             /\ (refresh_info.image_hash = latest_refresh.image_hash
                    => ~InLog("display"))
    /\ (IterationOver /\ InLog("commit")
           /\ refresh_info.image_hash = preInfo.image_hash)
          => ~InLog("display")
    /\ (IterationOver /\ InLog("hash") /\ ~InLog("abort_hash")
           /\ ~InLog("display"))
          => /\ InLog("commit")
             /\ refresh_info.image_hash = preInfo.image_hash

\* C1 witness: a dedup cycle has committed: same hash, a newer timestamp,
\* no display call.
DedupCycleCommitted ==
    /\ loopPc = "write_config"
    /\ InLog("commit")
    /\ ~InLog("display")
    /\ refresh_info.image_hash = latest_refresh.image_hash
    /\ refresh_info.refresh_time = current_dt
    /\ refresh_info.refresh_time # latest_refresh.refresh_time

\* C2: a failure at a pipeline step (resolution null or raising, execute,
\* hash, display) leaves refresh_info as it was before the cycle and the
\* loop goes on to its next iteration; after such a failure, a cycle whose
\* steps all succeed commits.
StepFailureLeavesRefreshInfo ==
    /\ Aborted => /\ refresh_info = preInfo
                  /\ IterationOver
                  /\ lockOwner # "loop"
    /\ (everFailed /\ IterationOver /\ InLog("hash") /\ ~Aborted)
          => InLog("commit")

\* C2 witness: after an earlier aborted cycle, a cycle has displayed and
\* committed.
CommitAfterEarlierFailure ==
    /\ everFailed
    /\ loopPc = "write_config"
    /\ InLog("display")
    /\ InLog("commit")
    /\ refresh_info # preInfo

\* C3: in every cycle that passes the running check and ends without an
\* unhandled exception (the action block committed, was skipped for lack of
\* an action, or was aborted at a step, e.g. by a null plugin resolution),
\* write_config() is invoked before the cycle ends.
EpilogueAlwaysRuns ==
    (IterationOver /\ InLog("get_playlist_manager") /\ ~InLog("unhandled"))
       => InLog("write_config")

\* C4: a manual request is consumed at most once: the slot is emptied in
\* the locked step that reads it, so no request is the action of two cycles,
\* also when the consuming cycle's pipeline fails.
ManualConsumedAtMostOnce ==
    /\ \A id \in 1..MaxManual : consumed[id] <= 1
    /\ refresh_action.id # 0
          => /\ manual_update_request.id # refresh_action.id
             /\ lockOwner = "loop"
             /\ consumed[refresh_action.id] = 1

\* C4 witness: the only manual request was consumed by a cycle, a cycle
\* was aborted at a step, and a later cycle fell back to interval selection.
ManualRequestNotReplayed ==
    /\ nCalls = 1
    /\ muPc = "idle"
    /\ consumed[1] = 1
    /\ everFailed
    /\ InLog("get_playlist")
    /\ manual_update_request = NoAction

ManualTakesPrecedence ==
    /\ [][ (loopPc = "determine" /\ loopPc' # loopPc)
             => IF Truthy(manual_update_request)
                THEN /\ refresh_action' = manual_update_request
                     /\ log' = Append(log, "manual")
                ELSE /\ refresh_action'.id = 0
                     /\ ~InLog("manual")'
                     /\ InLog("get_playlist")'
         ]_vars
    /\ [](InLog("manual")
            => ~InLog("get_playlist") /\ ~InLog("get_next_plugin"))

\* C7 witness: a cycle is running a manual action without any playlist call.
ManualActionWithoutPlaylistLookup ==
    /\ loopPc = "execute"
    /\ refresh_action.id # 0
    /\ InLog("manual")
    /\ ~InLog("get_playlist")

\* C9: a wake that finds the running flag false ends the loop without any
\* pipeline step: no manual request is consumed, nothing is looked up,
\* resolved, executed, displayed or committed, and write_config is not
\* called, then or afterwards.
StopObservedRunsNoStep ==
    /\ [](loopPc \in {"finally_break", "exited"}
            => log \in {<<>>, <<"set_event">>})
    /\ [][ (loopPc = "check_running" /\ ~running /\ loopPc' # loopPc)
             => /\ loopPc' = "finally_break"
                /\ UNCHANGED <<manual_update_request, device, consumed,
                               refresh_action>>
         ]_vars
    /\ [][ (loopPc \in {"finally_break", "exited"})
             => (/\ UNCHANGED <<device, consumed, refresh_action>>
                 /\ loopPc' # "top")
         ]_vars

\* C9 witness: manual_update stored a request and woke the loop, the loop
\* found the running flag false and ended; the request is still in the slot.
StoppedWithPendingRequest ==
    /\ loopPc = "exited"
    /\ ~running
    /\ wokenBy = "manual"
    /\ nCalls = 1
    /\ manual_update_request.id = 1
    /\ consumed[1] = 0

\* C10: once stop() has set the flag and notified, the loop is never left
\* blocked in wait() without a notification, so that only the expiry of the
\* sleep timeout could end it.
StopNotifyNeverLost ==
    (stopPc \in {"join", "returned"} /\ loopPc = "waiting") => ~inWait

\* C6: when stop() is not called and the sleep timeout does not elapse,
\* a manual_update call made while the loop is blocked in wait() wakes the
\* loop by its notify: the cycle the loop then runs takes a manual request
\* as its refresh action, unless a collaborator call raises before action
\* determination.
ManualUpdateWakesWaitingLoop ==
    \A id \in 1..MaxManual :
        (muPc = "acquire" /\ muReq.id = id /\ muReq.during = "Waiting")
           ~> \/ refresh_action.id >= id
              \/ InLog("unhandled")

\* C6 witness: the loop was woken by manual_update's notify, not by a
\* timeout, and is running the manual action stored by a call made while it
\* was blocked.
WokenByManualRunsManual ==
    /\ wokenBy = "manual"
    /\ loopPc = "resolve"
    /\ refresh_action.id # 0
    /\ refresh_action.during = "Waiting"

\* C8: every call to stop() made after start() eventually returns, and it
\* returns only after the loop thread has ended.
StopAlwaysReturns ==
    /\ [](stopPc = "returned" => loopPc = "exited")
    /\ (stopPc # "idle") ~> (stopPc = "returned")

\* C11: a wait_for_refresh call, whenever it is made, leaves
\* refresh_event.wait() only on a completion signal given after the call
\* (that of the cycle in flight or of the next one), never on the event a
\* previous cycle left set, and the record it returns is the result record
\* as it was at that signal.
WaitReturnsAfterCompletion ==
    /\ wfPc \in {"read", "returned"} => wfDue # "none"
    /\ wfPc = "returned" => wfResult = DueResult

\* C12: the loop sets refresh_event exactly once per cycle, as the last
\* step of the cycle and after the cycle's write_config, whatever the outcome
\* of the cycle (commit, dedup skip, no action, aborted step, persistence
\* failure, unhandled exception).
SignalOnceAfterEpilogue ==
    /\ (loopPc \notin {"top", "exited"}) => ~InLog("set_event")
    /\ (loopPc = "top" /\ log # <<>>)
          => /\ Cardinality(Positions("set_event")) = 1
             /\ log[Len(log)] = "set_event"
             /\ \E i \in Positions("write_config") : i < Len(log)

\* C13: an unhandled failure of a cycle is recorded under "exception" in
\* the result record before the completion signal, a wait_for_refresh call
\* that was blocked during that cycle returns a record containing the
\* exception, and the loop goes on to its next iteration; a cycle with only
\* isolated failures ends with an empty result record.
UnhandledFailureReported ==
    /\ (IterationOver /\ InLog("unhandled")) => refresh_result = "exception"
    /\ (wfPc = "returned" /\ wfDue = "exception") => wfResult = "exception"
    /\ InLog("unhandled") => loopPc \in {"except", "finally", "top"}
    /\ (IterationOver /\ InLog("get_playlist_manager")
           /\ ~InLog("unhandled"))
          => refresh_result = "empty"

\* C14: a write_config failure neither reverts the refresh_info committed
\* in memory nor ends the loop: every step that leaves the write_config
\* call keeps refresh_info and goes on to the end of the iteration, and
\* whenever the persisted refresh_info changes it is a write_config that
\* sets it to the in-memory refresh_info of that moment, so the first
\* write that succeeds after a failure persists the latest commit.
PersistFailureKeepsCommit ==
    /\ [][ (loopPc = "write_config" /\ loopPc' # loopPc)
             => /\ refresh_info' = refresh_info
                /\ loopPc' = "finally"
                /\ persisted' \in {persisted, refresh_info}
         ]_vars
    /\ [][ persisted' # persisted
             => /\ loopPc = "write_config"
                /\ persisted' = refresh_info'
         ]_vars

\* C14 witness: a commit was left unpersisted by a failed write_config; the
\* loop has gone on, and a later cycle without a commit of its own is about
\* to call write_config with the commit still in memory.
PersistRetryAfterFailure ==
    /\ loopPc = "write_config"
    /\ ~InLog("commit")
    /\ refresh_info = preInfo
    /\ persisted # refresh_info
    /\ refresh_info # InitInfo

\* C15: in a cycle without a pending manual request in which the playlist
\* of the last RefreshInfo is absent or reports no next plugin, no plugin is
\* resolved or executed, display_image is not called and refresh_info stays
\* as it was, and write_config is still called before the cycle ends.
NoSelectionOnlyPersists ==
    NoSelection
       => /\ ~InLog("manual")
          /\ ~InLog("resolve") /\ ~InLog("execute") /\ ~InLog("hash")
          /\ ~InLog("display") /\ ~InLog("commit")
          /\ refresh_info = preInfo
          /\ loopPc \in {"write_config", "finally", "top"}
          /\ IterationOver => InLog("write_config")

\* C15 witness: a cycle whose playlist was absent has ended; write_config
\* was called and nothing else was.
AbsentPlaylistCyclePersisted ==
    /\ IterationOver
    /\ InLog("no_playlist")
    /\ InLog("write_config")
    /\ log[Len(log)] = "write_config"

\* C16: in a cycle whose resolution, execution, fingerprinting and
\* rendering succeed and whose fingerprint differs from the stored one, the
\* steps resolve, execute, hash, display_image (with the produced image),
\* commit (the new hash and the cycle's timestamp), write_config happen in
\* this order, each exactly once, and the history of the next cycle starts
\* only after the completion signal that ends the previous one.
DisplayCycleInOrder ==
    /\ [][ (loopPc = "hash" /\ loopPc' \notin {"hash", "finally"}
               /\ compute_image_hash(image) # latest_refresh.image_hash)
             => loopPc' = "display"
         ]_vars
    /\ [](loopPc = "display" => FromResolve = SubSeq(PipelineSteps, 1, 3))
    /\ []((InLog("display") /\ ~InLog("abort_display"))
            => /\ FromResolve = SubSeq(PipelineSteps, 1, StepsDone)
               /\ loopPc \in {"commit", "write_config"} => displayed = image
               /\ loopPc = "write_config"
                     => /\ refresh_info.image_hash = compute_image_hash(image)
                        /\ refresh_info.image_hash
                              # latest_refresh.image_hash
                        /\ refresh_info.refresh_time = current_dt
               /\ IterationOver
                     => /\ refresh_info.image_hash
                              = compute_image_hash(displayed)
                        /\ refresh_info.image_hash # preInfo.image_hash)
    /\ [][ Len(log') < Len(log)
             => /\ loopPc = "top"
                /\ log[Len(log)] = "set_event"
                /\ log' = <<>>
         ]_vars

\* C16 witness: a cycle has resolved, executed, hashed, displayed a new
\* image, committed and persisted, in this order.
DisplayCyclePersisted ==
    /\ loopPc = "finally"
    /\ FromResolve = SubSeq(PipelineSteps, 1, 6)
    /\ displayed = "Y"
    /\ refresh_info.image_hash = "h1"
    /\ persisted = refresh_info

\* C17: every access to manual_update_request and to refresh_result is made
\* by a thread that holds the condition lock: the loop at lines 55, 66-69
\* and 129, manual_update at line 135, wait_for_refresh at line 140.
AccessesHoldTheLock ==
    /\ loopPc \in {"clear_result", "determine", "except"}
          => lockOwner = "loop"
    /\ muPc = "store" => lockOwner = "mu"
    /\ wfPc = "read" => lockOwner = "wf"

\* C18: the loop holds the condition lock from its wake to the end of the
\* cycle and gives it up only inside wait() and between iterations, so
\* while a cycle is Executing a manual_update call can begin but can neither
\* store its request nor return, and the manual slot does not change
\* between the cycle's action determination and its end.
LoopHoldsLockThroughCycle ==
    /\ [](InWithBlock <=> lockOwner = "loop")
    /\ [](Executing => muPc # "store")
    /\ [][ Executing => (muPc' = muPc \/ muPc' = "acquire") ]_vars
    /\ [][ (loopPc \in {"resolve", "execute", "hash", "display", "commit",
                        "write_config"})
             => manual_update_request' = manual_update_request
         ]_vars

\* C18 witness: a manual_update call that began while the cycle was
\* Executing is still waiting for the lock at the cycle's last step.
ManualBlockedByExecutingCycle ==
    /\ loopPc = "write_config"
    /\ InLog("commit")
    /\ muPc = "acquire"
    /\ muReq.during = "Executing"
    /\ manual_update_request = NoAction

\* C19: the stored RefreshInfo.image_hash is initially the fingerprint of
\* the image on the display; whenever the loop is Waiting, after any cycles,
\* refresh_info.image_hash is the fingerprint of the image last passed
\* successfully to display_image (a failed display_image leaves the display
\* as it was, and only the loop writes refresh_info).
StoredHashMatchesDisplay ==
    Waiting => refresh_info.image_hash = compute_image_hash(displayed)

\* C19 witness: the loop is Waiting after a cycle that was aborted at a
\* step and a cycle that put a new image on the display.
WaitingAfterFailureAndNewImage ==
    /\ Waiting
    /\ everFailed
    /\ displayed = "Y"
    /\ refresh_info.image_hash = "h1"

\* C20: once start() has been called, a wait_for_refresh call does not
\* block forever: under fair scheduling with a finite sleep timeout it
\* eventually returns, also when stop() is called while it is blocked,
\* because the iteration that observes the stop sets the event, and the
\* event stays set once the loop thread has ended.
WaitForRefreshEventuallyReturns ==
    /\ [](loopPc = "exited" => refresh_event /\ wfPc # "blocked")
    /\ (wfPc \in {"blocked", "read"} /\ loopPc # "unstarted")
          ~> (wfPc = "returned")

\* C20 witness: a wait_for_refresh call that was blocked has been released
\* by the completion signal of the iteration that observed the stop, and
\* has returned after the loop thread ended.
ReleasedByStoppingLoop ==
    /\ wfPc = "returned"
    /\ wfDue = "stopped"
    /\ loopPc = "exited"
    /\ refresh_event
====
